---- MODULE Spec2Model ----
(***************************************************************************)
(* The manager-team analysis of the fantasy football dashboard: the        *)
(* historical dataset loader, the two FPL API fetches, the reconciliation  *)
(* of a manager's picks against the historical dataset and the tabs that   *)
(* report on the reconciled squad.  Two programs of the repository run     *)
(* this analysis: the monolithic script src/app.py (impl = "app") and the  *)
(* view src/views/manager_analysis.py (impl = "views").  The pitch view    *)
(* src/views/position_analysis.py (impl = "pitch") shares the gameweek     *)
(* input and the team fetch and draws the fetched team on a pitch.         *)
(*                                                                         *)
(* Numbers that pandas holds as floats (means of up to three rows) are     *)
(* exact fractions [n, d] in lowest terms, so that equal values are equal. *)
(***************************************************************************)
EXTENDS Integers, Sequences, FiniteSets, TLC

VARIABLES
    impl,           \* the program that runs: "app", "views" or "pitch"
    file,           \* data/fpl_features.csv as found on disk
    api_picks,      \* the picks the FPL API holds for the manager
    df,             \* the historical dataset after load_player_data()
    bootstrap,      \* fetch_fpl_bootstrap()'s return value (cached)
    pc,             \* position of the script run
    current_gw,     \* the gameweek detected from the bootstrap events
    gw,             \* the requested gameweek
    outcome,        \* how the team-snapshot request ended
    manager_data,   \* fetch_manager_data()'s return value
    player_map,     \* fetch_player_mapping(): element id -> identity
    teams,          \* fetch_player_mapping(): team code -> team name
    team_analysis,  \* the rows appended by the reconciliation loop
    analysis_df,    \* the rows sorted by position_number
    raised,         \* the exception that ended the run, "none" if none
    error,          \* the st.error message of the run, "" if none
    cards,          \* Summary tab: the points shown for each starter
    captain_out,    \* Captain tab: what it reported
    summary_out,    \* Summary tab of app.py: the totals it computed
    insights_out,   \* Insights tab: what it reported
    pitch           \* the pitch view: the names drawn on the image shown

vars == <<impl, file, api_picks, bootstrap, df, pc, current_gw, gw, outcome,
          manager_data, player_map, teams, team_analysis, analysis_df, raised,
          error, cards, captain_out, summary_out, insights_out, pitch>>

----------------------------------------------------------------------------
(* Bounds of the model. *)

MaxRows == 4
MaxGW == 4
NumSamplePlayers == 1
NumSampleGWs == 2

(* Constants of the program. *)

StartingSlots == 11
RecentGames == 3
CostUnitsPerMillion == 10
TopEfficient == 3
MinGW == 1
LastGW == 38
PitchSlots == 5
RollingWindow == 3

----------------------------------------------------------------------------
(* Exact fractions. *)

RECURSIVE GCD(_, _)
GCD(a, b) == IF b = 0 THEN a ELSE GCD(b, a % b)

Abs(x) == IF x < 0 THEN -x ELSE x

Frac(n, d) ==
    LET g == GCD(Abs(n), d)
    IN  [n |-> n \div g, d |-> d \div g]

Num(v) == Frac(v, 1)

Zero == Num(0)

\* a + b over the least common denominator
RatAdd(a, b) ==
    LET g == GCD(a.d, b.d)
    IN  Frac(a.n * (b.d \div g) + b.n * (a.d \div g), (a.d \div g) * b.d)

RatSub(a, b) == Frac(a.n * b.d - b.n * a.d, a.d * b.d)

RatTimes(a, k) == Frac(a.n * k, a.d)

RatLess(a, b) == a.n * b.d < b.n * a.d

RatMul(a, b) == Frac(a.n * b.n, a.d * b.d)

\* a / b for b # 0
RatDiv(a, b) ==
    IF b.n < 0 THEN Frac(-(a.n * b.d), a.d * (-b.n))
    ELSE Frac(a.n * b.d, a.d * b.n)

RECURSIVE RatSum(_)
\* Series.sum() of a float column
RatSum(s) == IF s = <<>> THEN Zero ELSE RatAdd(Head(s), RatSum(Tail(s)))

\* Series.mean() of a non-empty float column
RatMean(s) == RatDiv(RatSum(s), Num(Len(s)))

\* int(x): truncation toward zero
IntOf(a) == IF a.n < 0 THEN -((-a.n) \div a.d) ELSE a.n \div a.d

RECURSIVE SumOf(_)
SumOf(s) == IF s = <<>> THEN 0 ELSE Head(s) + SumOf(Tail(s))

Column(rows, col) == [i \in 1..Len(rows) |-> rows[i][col]]

\* pandas Series.mean() of a non-empty integer column
Mean(rows, col) == Frac(SumOf(Column(rows, col)), Len(rows))

----------------------------------------------------------------------------
(* Python dictionaries. *)

EmptyDict == <<>>

DictGet(d, key, default) == IF key \in DOMAIN d THEN d[key] ELSE default

Truthy(d) == DOMAIN d # {}

----------------------------------------------------------------------------
(* The historical dataset file and its loader. *)

RequiredCols ==
    {"player_name", "gw", "goals_scored", "assists", "total_points",
     "clean_sheets", "now_cost", "goals_conceded", "saves"}

NameOrder ==
    <<"Alisson", "Dias", "Foden", "Gabriel", "Haaland", "James", "Odegaard",
      "Rice", "Saka", "Salah", "Saliba", "Son", "Trippier">>

NameRank(name) == CHOOSE i \in 1..Len(NameOrder) : NameOrder[i] = name

CsvRow(name, g, goals, assists, points, cost) ==
    [player_name |-> name, gw |-> g, goals_scored |-> goals,
     assists |-> assists, total_points |-> points, now_cost |-> cost]

\* The rows a dataset file is made of: two players, a gameweek recorded
\* twice, a gameweek missing for each player, a row of cost 0.
CsvPool ==
    << CsvRow("Haaland", 3, 0, 0, 5, 45),
       CsvRow("Salah",   1, 0, 0, 2, 40),
       CsvRow("Haaland", 1, 1, 0, 6, 50),
       CsvRow("Haaland", 2, 1, 1, 9, 60),
       CsvRow("Haaland", 4, 2, 0, 12, 65),
       CsvRow("Haaland", 2, 0, 1, 3, 55),
       CsvRow("Salah",   3, 1, 0, 5, 0) >>

RECURSIVE RowsAt(_, _, _)
\* the rows of pool at the indices of S, in pool order from index i on
RowsAt(pool, S, i) ==
    IF i > Len(pool) THEN <<>>
    ELSE (IF i \in S THEN <<pool[i]>> ELSE <<>>) \o RowsAt(pool, S, i + 1)

RECURSIVE Reverse(_)
Reverse(s) == IF s = <<>> THEN <<>> ELSE Reverse(Tail(s)) \o <<Head(s)>>

\* Files with every required column: at most MaxRows rows of the pool, in
\* pool order or in the opposite order (neither is sorted by player and gw).
CsvFiles ==
    { [found |-> TRUE, columns |-> RequiredCols,
       rows |-> IF rev THEN Reverse(RowsAt(CsvPool, S, 1)) ELSE RowsAt(CsvPool, S, 1)] :
        S \in { T \in SUBSET (1..Len(CsvPool)) : Cardinality(T) <= MaxRows },
        rev \in BOOLEAN }

FixedRows == RowsAt(CsvPool, {1, 2, 3, 7}, 1)

FixedFile == [found |-> TRUE, columns |-> RequiredCols, rows |-> FixedRows]

\* A dataset in which, at gameweek 1, one player's points (7) are exactly 0.7
\* of the mean of the two players' points (13 and 7).
ThresholdRows ==
    << CsvRow("Haaland", 1, 2, 1, 13, 50),
       CsvRow("Salah",   1, 1, 0, 7, 40),
       CsvRow("Salah",   2, 0, 0, 1, 0) >>

ThresholdFile == [found |-> TRUE, columns |-> RequiredCols, rows |-> ThresholdRows]

\* a row of a file that also has the columns player_id, position and photo
PitchRow(name, g, points, cost, player_id, position) ==
    [player_name |-> name, gw |-> g, goals_scored |-> 0, assists |-> 0,
     total_points |-> points, now_cost |-> cost, player_id |-> player_id,
     position |-> position, photo |-> ToString(player_id) \o ".jpg"]

\* gameweek 2 of a goalkeeper, five defenders and five midfielders
PitchRows ==
    << PitchRow("Alisson", 2, 6, 55, 11, 1),
       PitchRow("Dias", 2, 2, 55, 12, 2),
       PitchRow("Gabriel", 2, 8, 60, 13, 2),
       PitchRow("James", 2, 1, 50, 14, 2),
       PitchRow("Saliba", 2, 6, 60, 15, 2),
       PitchRow("Trippier", 2, 5, 65, 16, 2),
       PitchRow("Foden", 2, 9, 80, 17, 3),
       PitchRow("Odegaard", 2, 3, 85, 18, 3),
       PitchRow("Rice", 2, 2, 65, 19, 3),
       PitchRow("Saka", 2, 12, 100, 20, 3),
       PitchRow("Son", 2, 7, 95, 21, 3) >>

\* Files for the pitch view: every row, or every row but the goalkeeper's,
\* a defender's or a midfielder's.
PitchFiles ==
    { [found |-> TRUE,
       columns |-> RequiredCols \cup {"player_id", "position", "photo"},
       rows |-> RowsAt(PitchRows, (1..Len(PitchRows)) \ {out}, 1)] :
        out \in {0, 1, 4, 9} }

ShortFile ==
    [found |-> TRUE, columns |-> RequiredCols \ {"saves"}, rows |-> FixedRows]

MissingFile == [found |-> FALSE, columns |-> {}, rows |-> <<>>]

RowLE(a, b) ==
    \/ NameRank(a.player_name) < NameRank(b.player_name)
    \/ a.player_name = b.player_name /\ a.gw <= b.gw

RECURSIVE InsertRow(_, _)
InsertRow(s, r) ==
    IF s = <<>> THEN <<r>>
    ELSE IF RowLE(Head(s), r) THEN <<Head(s)>> \o InsertRow(Tail(s), r)
    ELSE <<r>> \o s

\* the loader without its sort: the rows stay in file order
KeepFileOrder(s) == s

RECURSIVE SortRows(_)
\* df.sort_values(['player_name', 'gw']): a stable sort on the two keys
SortRows(s) ==
    IF s = <<>> THEN <<>>
    ELSE InsertRow(SortRows(SubSeq(s, 1, Len(s) - 1)), s[Len(s)])

WithContributions(r) ==
    [c \in DOMAIN r \cup {"goal_contributions"} |->
        IF c = "goal_contributions" THEN r.goals_scored + r.assists ELSE r[c]]

SamplePlayers == <<"Haaland", "Salah", "Kane">>

\* the outcomes of the random draws of one sample row: the least and the
\* greatest cost of either range
SampleDraws ==
    { [goals |-> 0, assists |-> 0, bonus |-> 0, cost |-> 7000000, top_cost |-> 10000000],
      [goals |-> 1, assists |-> 1, bonus |-> 2, cost |-> 9999999, top_cost |-> 14999999] }

\* now_cost: randint(10000000, 15000000) for Haaland and Salah,
\* randint(7000000, 10000000) for the others
SampleCost(player, d) ==
    IF player \in {"Haaland", "Salah"} THEN d.top_cost ELSE d.cost

\* create_sample_data() for one outcome of its random draws
SampleData(draws) ==
    [columns |-> {"player_name", "gw", "goals_scored", "assists", "total_points",
                  "now_cost", "goal_contributions", "points_per_million"},
     rows |-> [k \in 1..(NumSamplePlayers * NumSampleGWs) |->
        LET p == ((k - 1) \div NumSampleGWs) + 1
            g == ((k - 1) % NumSampleGWs) + 1
            d == draws[k]
        IN  WithContributions(
                CsvRow(SamplePlayers[p], g, d.goals, d.assists,
                       d.goals * 4 + d.assists * 3 + d.bonus,
                       SampleCost(SamplePlayers[p], d)))]]

CleanedRows(rows) == [i \in 1..Len(rows) |-> WithContributions(rows[i])]

\* the rolling mean taken over the rows of every player together
FormUngrouped(rows, k) ==
    LET first == IF k > RollingWindow THEN k - RollingWindow + 1 ELSE 1
    IN  Mean(SubSeq(rows, first, k), "total_points")

\* groupby('player_name')['total_points'].rolling(3, min_periods=1).mean()
\* at row k of the sorted rows: the mean over row k and the rows of the
\* same player before it, the last 3 of them at most
Form(rows, k) ==
    LET mine == SelectSeq(SubSeq(rows, 1, k),
                          LAMBDA r : r.player_name = rows[k].player_name)
        n == Len(mine)
        first == IF n > RollingWindow THEN n - RollingWindow + 1 ELSE 1
    IN  Mean(SubSeq(mine, first, n), "total_points")

\* df['form'] = ...: the rolling means put beside the rows they belong to
WithForm(rows) ==
    [k \in 1..Len(rows) |->
        [c \in DOMAIN rows[k] \cup {"form"} |->
            IF c = "form" THEN Form(rows, k) ELSE rows[k][c]]]

\* load_player_data() on a file that has every required column
LoadedData(f) ==
    [columns |-> f.columns \cup {"goal_contributions", "points_per_million", "form"},
     rows |-> WithForm(SortRows(CleanedRows(f.rows)))]

NoData == [columns |-> {}, rows |-> <<>>]

----------------------------------------------------------------------------
(* The FPL API. *)

ElementIds == {1, 2, 3}

\* bootstrap-static: the elements the directory knows (element 3 is absent)
ApiElements ==
    [id \in {1, 2} |->
        IF id = 1
        THEN [web_name |-> "Haaland", team_code |-> 43, element_type |-> 4]
        ELSE [web_name |-> "Salah", team_code |-> 14, element_type |-> 3]]

ApiTeams == [code \in {14, 43} |-> IF code = 43 THEN "Man City" ELSE "Liverpool"]

ElementTypeOf(e) == IF e = 1 THEN 4 ELSE IF e = 2 THEN 3 ELSE 2

ApiPick(e, slot, cap, m) ==
    [element |-> e, position |-> slot, element_type |-> ElementTypeOf(e),
     is_captain |-> cap, is_vice_captain |-> FALSE, multiplier |-> m]

Multipliers == 0..3

FirstSlots == (StartingSlots - 2)..(StartingSlots + 1)

\* Squads of n distinct players (no squad, up to every element) in consecutive
\* slots from f on: at most one
\* pick flagged captain (c = 0: none), any multiplier for it, 0 or 1 for the
\* others.
SquadShapes(n) ==
    { t \in [es : [1..n -> ElementIds], f : FirstSlots, c : 0..n,
             ms : [1..n -> Multipliers]] :
        /\ \A i, j \in 1..n : i # j => t.es[i] # t.es[j]
        /\ \A i \in 1..n : i # t.c => t.ms[i] <= 1 }

SquadOf(n, t) ==
    [i \in 1..n |-> ApiPick(t.es[i], t.f + i - 1, t.c = i, t.ms[i])]

Squads ==
    UNION { { SquadOf(n, t) : t \in SquadShapes(n) } : n \in 0..Cardinality(ElementIds) }

\* Two picks with multiplier 1 and no captain, the last starting slot and the
\* first bench slot, listed in slot order or in the opposite order.
PlainSquads ==
    { IF rev THEN Reverse(sq) ELSE sq :
        sq \in { <<ApiPick(es[1], StartingSlots, FALSE, 1),
                   ApiPick(es[2], StartingSlots + 1, FALSE, 1)>> :
                    es \in {<<1, 3>>, <<2, 1>>, <<3, 2>>} },
        rev \in BOOLEAN }

\* The squads of Squads in which no pick is flagged captain
UncaptainedSquads ==
    { sq \in Squads : \A i \in 1..Len(sq) : ~sq[i].is_captain }

\* A squad of 15: the players of PitchRows in slots 1 to 11, then four
\* players the dataset does not know.
PitchSquad ==
    [i \in 1..15 |->
        [element |-> 10 + i, position |-> i, is_captain |-> FALSE,
         is_vice_captain |-> FALSE, multiplier |-> IF i <= StartingSlots THEN 1 ELSE 0,
         element_type |-> IF i = 1 THEN 1 ELSE IF i <= 6 THEN 2
                          ELSE IF i <= 11 THEN 3 ELSE 4]]

\* the element ids and one more, unknown to the API
MoreElementIds == ElementIds \cup {Cardinality(ElementIds) + 1}

\* Squads of one pick more than the top-efficiency list holds, in every
\* order, without a captain
LargerSquads ==
    { [i \in 1..(TopEfficient + 1) |-> ApiPick(es[i], f + i - 1, FALSE, 1)] :
        es \in { e \in [1..(TopEfficient + 1) -> MoreElementIds] :
                    \A i, j \in 1..(TopEfficient + 1) : i # j => e[i] # e[j] },
        f \in FirstSlots }

\* An event of bootstrap-static: event.get('id') is None when has_id is
\* FALSE.
Event(has_id, id, is_current, is_next) ==
    [has_id |-> has_id, id |-> IF has_id THEN id ELSE 0,
     is_current |-> is_current, is_next |-> is_next]

\* the ids an event can carry: two gameweeks, zero and a negative number
EventIds == {-1, 0, 2, 3}

Events ==
    { Event(h, id, c, n) : h \in BOOLEAN, id \in EventIds,
                           c \in BOOLEAN, n \in BOOLEAN }

\* the events lists: none, one or two events
EventLists ==
    {<<>>} \cup { <<a>> : a \in Events } \cup { <<a, b>> : a \in Events, b \in Events }

\* fetch_fpl_bootstrap() failed and returned None
NoBootstrap == [is_none |-> TRUE, events |-> <<>>]

\* fetch_fpl_bootstrap() returned the JSON of bootstrap-static
BootstrapOf(events) == [is_none |-> FALSE, events |-> events]

\* gameweek 2 is the current one and gameweek 3 the next
SeasonBootstrap ==
    BootstrapOf(<<Event(TRUE, 2, TRUE, FALSE), Event(TRUE, 3, FALSE, TRUE)>>)

\* What the process finds when it starts: a dataset file, the manager's
\* squad and the events at the API.
Scenarios ==
    { [file |-> f, picks |-> sq, bootstrap |-> SeasonBootstrap] :
                f \in CsvFiles, sq \in PlainSquads }
    \cup { [file |-> FixedFile, picks |-> sq, bootstrap |-> SeasonBootstrap] :
                sq \in Squads }
    \cup { [file |-> ThresholdFile, picks |-> sq, bootstrap |-> SeasonBootstrap] :
                sq \in UncaptainedSquads \cup LargerSquads }
    \cup { [file |-> f, picks |-> sq, bootstrap |-> SeasonBootstrap] :
                f \in {ShortFile, MissingFile}, sq \in PlainSquads }
    \cup { [file |-> f, picks |-> PitchSquad, bootstrap |-> SeasonBootstrap] :
                f \in PitchFiles }
    \cup { [file |-> FixedFile,
            picks |-> <<ApiPick(1, StartingSlots, FALSE, 1),
                        ApiPick(2, StartingSlots + 1, FALSE, 1)>>,
            bootstrap |-> b] :
                b \in {NoBootstrap} \cup { BootstrapOf(es) : es \in EventLists } }

\* current_gw = None
NoGw == [some |-> FALSE, val |-> 0]

\* current_gw = v
Gw(v) == [some |-> TRUE, val |-> v]

NoneData == [is_none |-> TRUE, picks |-> <<>>]

Json(picks) == [is_none |-> FALSE, picks |-> picks]

NoCaptainOut ==
    [status |-> "not rendered", player_name |-> "", total |-> Zero,
     verdict |-> "n/a", points_diff |-> Zero]

\* the Summary tab before it is rendered
NoSummaryOut ==
    [rendered |-> FALSE, totals_shown |-> FALSE, total_points |-> Zero,
     captain_points |-> Zero, bonus_shown |-> FALSE, bench |-> <<>>,
     bench_total_shown |-> FALSE, bench_points |-> Zero]

\* the lineup check before it is made
NoLineupCheck ==
    [status |-> "not checked", bench_player |-> "", starter |-> "",
     points_diff |-> Zero]

\* the insights before they are rendered
NoInsightsOut ==
    [rendered |-> FALSE, points_by_pos |-> EmptyDict, best_position |-> "",
     best_position_points |-> 0, best_player |-> "", avg_points |-> Zero,
     efficient_players |-> <<>>, underperformers |-> <<>>,
     lineup |-> NoLineupCheck]

Init ==
    /\ impl \in {"app", "views", "pitch"}
    /\ \E sc \in Scenarios :
            file = sc.file /\ api_picks = sc.picks /\ bootstrap = sc.bootstrap
    /\ df = NoData
    /\ pc = "start"
    /\ current_gw = NoGw
    /\ gw = MinGW
    /\ outcome = "none"
    /\ manager_data = NoneData
    /\ player_map = EmptyDict
    /\ teams = EmptyDict
    /\ team_analysis = <<>>
    /\ analysis_df = <<>>
    /\ raised = "none"
    /\ error = ""
    /\ cards = <<>>
    /\ captain_out = NoCaptainOut
    /\ summary_out = NoSummaryOut
    /\ insights_out = NoInsightsOut
    /\ pitch = <<>>

----------------------------------------------------------------------------
(* Loading the historical dataset (once per session, cached). *)

session == <<impl, file, api_picks, bootstrap>>

run == <<current_gw, gw, outcome, manager_data, player_map, teams, team_analysis,
         analysis_df, raised, error, cards, captain_out, summary_out,
         insights_out, pitch>>

\* the file was read and has every required column
LoadCsv ==
    /\ pc = "start"
    /\ file.found
    /\ RequiredCols \subseteq file.columns
    /\ df' = LoadedData(file)
    /\ pc' = "idle"
    /\ UNCHANGED <<session, run>>

\* the file was read and lacks a required column: sample data instead
LoadMissingColumns ==
    /\ pc = "start"
    /\ file.found
    /\ ~(RequiredCols \subseteq file.columns)
    /\ \E draws \in [1..(NumSamplePlayers * NumSampleGWs) -> SampleDraws] :
            df' = SampleData(draws)
    /\ pc' = "idle"
    /\ UNCHANGED <<session, run>>

\* FileNotFoundError: sample data instead
LoadNotFound ==
    /\ pc = "start"
    /\ ~file.found
    /\ \E draws \in [1..(NumSamplePlayers * NumSampleGWs) -> SampleDraws] :
            df' = SampleData(draws)
    /\ pc' = "idle"
    /\ UNCHANGED <<session, run>>

----------------------------------------------------------------------------
(* One analysis request. *)

\* event.get('id')
EventId(e) == IF e.has_id THEN Gw(e.id) ELSE NoGw

\* `if current_gw:` / `if not current_gw:` of Python: None and 0 are false
IsSet(g) == g.some /\ g.val # 0

RECURSIVE LastFlagged(_, _, _)
\* the id of the last event carrying the flag
LastFlagged(events, flag, before) ==
    IF events = <<>> THEN before
    ELSE LET e == events[Len(events)]
         IN  IF e[flag] THEN EventId(e)
             ELSE LastFlagged(SubSeq(events, 1, Len(events) - 1), flag, before)

RECURSIVE FirstFlagged(_, _, _)
\* for event in events: if event.get(flag): current_gw = event.get('id'); break
\* (current_gw keeps the value it had before when no event carries the flag)
FirstFlagged(events, flag, before) ==
    IF events = <<>> THEN before
    ELSE IF Head(events)[flag] THEN EventId(Head(events))
    ELSE FirstFlagged(Tail(events), flag, before)

RECURSIVE MaxEventId(_)
\* max(event.get('id', 1) for event in events), events not empty
MaxEventId(events) ==
    LET id == IF Head(events).has_id THEN Head(events).id ELSE 1
    IN  IF Len(events) = 1 THEN id
        ELSE LET rest == MaxEventId(Tail(events))
             IN  IF id >= rest THEN id ELSE rest

\* the gameweek detection of views/manager_analysis.py and of
\* ui/fpl_search.py
DetectGameweek(fpl_data) ==
    IF fpl_data.is_none THEN Gw(MinGW)
    ELSE LET events == fpl_data.events
             current == FirstFlagged(events, "is_current", NoGw)
             next == IF ~IsSet(current)
                     THEN FirstFlagged(events, "is_next", current)
                     ELSE current
             last == IF ~IsSet(next) /\ events # <<>>
                     THEN Gw(MaxEventId(events))
                     ELSE next
         IN  IF IsSet(last) THEN last ELSE Gw(MinGW)

\* the gameweeks st.number_input(min_value=1, max_value=38) lets through
GameWeeks == MinGW..MaxGW

\* views/manager_analysis.py, and fpl_search_inputs() of ui/fpl_search.py
\* for the pitch view: the gameweek is detected, then a manager id is
\* entered and the gameweek mode chosen; in the mode "Current" the button
\* starts an analysis of the detected gameweek; in the mode "Specific" the
\* number input starts from the detected gameweek and raises when that is
\* outside its range, and otherwise any gameweek of the range is chosen
RequestViews ==
    /\ pc = "idle"
    /\ impl \in {"views", "pitch"}
    /\ current_gw' = DetectGameweek(bootstrap)
    /\ \E gw_mode \in {"Current", "Specific"} :
          IF gw_mode = "Current"
          THEN /\ gw' = current_gw'.val
               /\ pc' = "fetch"
               /\ UNCHANGED raised
          ELSE IF current_gw'.val \in MinGW..LastGW
          THEN /\ \E g \in GameWeeks : gw' = g
               /\ pc' = "fetch"
               /\ UNCHANGED raised
          ELSE /\ raised' = "StreamlitAPIException"
               /\ pc' = "crashed"
               /\ UNCHANGED gw
    /\ UNCHANGED <<session, pitch, df, outcome, manager_data, player_map, teams,
                   team_analysis, analysis_df, error, cards, captain_out,
                   summary_out, insights_out>>

\* app.py: a manager id is entered, a gameweek chosen in the number input
\* and the button pressed
RequestApp ==
    /\ pc = "idle"
    /\ impl = "app"
    /\ \E g \in GameWeeks : gw' = g
    /\ pc' = "fetch"
    /\ UNCHANGED <<session, pitch, current_gw, df, outcome, manager_data, player_map,
                   teams, team_analysis, analysis_df, raised, error, cards,
                   captain_out, summary_out, insights_out>>

\* how requests.get / raise_for_status can end
Outcomes == {"ok", "http_404", "http_500", "timeout", "connection_error"}

\* requests.get returned a response (raise_for_status may still raise)
HasResponse(o) == o \in {"ok", "http_404", "http_500"}

\* fetch_manager_data of views/manager_analysis.py and utils/load_manager_data.py:
\* the except clause reads response.status_code, and response is unbound
\* when requests.get itself raised
FetchManagerDataViews ==
    /\ pc = "fetch"
    /\ impl \in {"views", "pitch"}
    /\ \E o \in Outcomes :
        /\ outcome' = o
        /\ IF o = "ok"
           THEN /\ manager_data' = Json(api_picks)
                /\ pc' = "fetched"
                /\ UNCHANGED <<raised, error>>
           ELSE IF HasResponse(o)
           THEN /\ manager_data' = NoneData
                /\ pc' = "fetched"
                /\ error' = IF o = "http_404" THEN "Manager ID not found"
                            ELSE "Error fetching manager data"
                /\ UNCHANGED raised
           ELSE /\ raised' = "UnboundLocalError"
                /\ pc' = "crashed"
                /\ UNCHANGED <<manager_data, error>>
    /\ UNCHANGED <<session, pitch, current_gw, df, gw, player_map, teams, team_analysis,
                   analysis_df, cards, captain_out,
                   summary_out, insights_out>>

\* fetch_manager_data of app.py
FetchManagerDataApp ==
    /\ pc = "fetch"
    /\ impl = "app"
    /\ \E o \in Outcomes :
        /\ outcome' = o
        /\ IF o = "ok"
           THEN /\ manager_data' = Json(api_picks)
                /\ UNCHANGED error
           ELSE /\ manager_data' = NoneData
                /\ error' = "Error fetching manager data"
    /\ pc' = "fetched"
    /\ UNCHANGED <<session, pitch, current_gw, df, gw, player_map, teams, team_analysis,
                   analysis_df, raised, cards, captain_out,
                   summary_out, insights_out>>

\* if manager_data: ... else: st.error(...)
\* the analysis without the test of the snapshot
SnapshotUnchecked == TRUE

\* if manager_data:
HasManagerData == ~manager_data.is_none

\* else: st.error("Could not fetch manager data. ...")
NoManagerData ==
    /\ pc = "fetched"
    /\ impl # "pitch"
    /\ ~HasManagerData
    /\ error' = "Could not fetch manager data"
    /\ pc' = "done"
    /\ UNCHANGED <<session, pitch, current_gw, df, gw, outcome, manager_data, player_map, teams,
                   team_analysis, analysis_df, raised, cards, captain_out,
                   summary_out, insights_out>>

\* what fetch_player_mapping returns: the directory, nothing when the
\* request failed, nothing when the API lists no element
DirectoryOutcomes == {"ok", "request_error", "no_elements"}

PlayerMapOf(o) ==
    IF o # "ok" THEN EmptyDict
    ELSE IF impl = "views" THEN ApiElements
    ELSE [id \in DOMAIN ApiElements |-> ApiElements[id].web_name]

TeamsOf(o) == IF o = "ok" /\ impl = "views" THEN ApiTeams ELSE EmptyDict

FetchPlayerMapping ==
    /\ pc = "fetched"
    /\ impl # "pitch"
    /\ HasManagerData
    /\ \E o \in DirectoryOutcomes :
        /\ player_map' = PlayerMapOf(o)
        /\ teams' = TeamsOf(o)
    /\ pc' = "mapped"
    /\ UNCHANGED <<session, pitch, current_gw, df, gw, outcome, manager_data, team_analysis,
                   analysis_df, raised, error, cards, captain_out,
                   summary_out, insights_out>>

\* the analysis without the test of the directory
DirectoryUnchecked == TRUE

\* if player_map:
HasPlayerMap == Truthy(player_map)

\* else: st.error("Could not fetch player information from FPL API.")
NoPlayerMap ==
    /\ pc = "mapped"
    /\ ~HasPlayerMap
    /\ error' = "Could not fetch player information from FPL API."
    /\ pc' = "done"
    /\ UNCHANGED <<session, pitch, current_gw, df, gw, outcome, manager_data, player_map, teams,
                   team_analysis, analysis_df, raised, cards, captain_out,
                   summary_out, insights_out>>

----------------------------------------------------------------------------
(* Reconciliation of one pick against the historical dataset. *)

\* a placeholder that forgets the id and a team of its own
AnonymousName(id) == "Unknown"

PlaceholderName(id) == "Player_" \o ToString(id)

\* player_map.get(element_id, {})
PlayerInfo(id) == DictGet(player_map, id, EmptyDict)

\* player_info.get('web_name', f"Player_{element_id}")
PlayerNameViews(id) == DictGet(PlayerInfo(id), "web_name", PlaceholderName(id))

\* player_map.get(element_id, f"Player_{element_id}")
PlayerNameApp(id) == DictGet(player_map, id, PlaceholderName(id))

\* teams.get(player_info.get('team_code', 0), "Unknown")
TeamNameOf(id) == DictGet(teams, DictGet(PlayerInfo(id), "team_code", 0), "Unknown")

PositionMap == [t \in 1..4 |-> <<"GK", "DEF", "MID", "FWD">>[t]]

\* df[(df['player_name'] == player_name) & (df['gw'] == gw)]
PlayerGwData(name, g) ==
    SelectSeq(df.rows, LAMBDA r : r.player_name = name /\ r.gw = g)

\* df[df['player_name'] == player_name]
PlayerHistory(name) == SelectSeq(df.rows, LAMBDA r : r.player_name = name)

RECURSIVE InsertByGwDesc(_, _)
InsertByGwDesc(s, r) ==
    IF s = <<>> THEN <<r>>
    ELSE IF Head(s).gw >= r.gw THEN <<Head(s)>> \o InsertByGwDesc(Tail(s), r)
    ELSE <<r>> \o s

RECURSIVE SortByGwDesc(_)
SortByGwDesc(s) ==
    IF s = <<>> THEN <<>>
    ELSE InsertByGwDesc(SortByGwDesc(SubSeq(s, 1, Len(s) - 1)), s[Len(s)])

\* DataFrame.nlargest(n, 'gw'): the n rows of greatest gw, the first
\* encountered kept among equal ones
NLargestGw(rows, n) ==
    LET sorted == SortByGwDesc(rows)
    IN  SubSeq(sorted, 1, IF Len(sorted) < n THEN Len(sorted) ELSE n)

\* player_gw_data.iloc[0].to_dict(): the numeric columns of the row
RowToDict(r) ==
    [gw |-> Num(r.gw), goals_scored |-> Num(r.goals_scored),
     assists |-> Num(r.assists), total_points |-> Num(r.total_points),
     now_cost |-> Num(r.now_cost), goal_contributions |-> Num(r.goal_contributions)]

\* zero stats with a unit cost in place of the zero cost
UnitCostStats ==
    [goals_scored |-> Zero, assists |-> Zero, total_points |-> Zero,
     value |-> Num(1), goal_contributions |-> Zero]

\* the stats used when the player has no exact row (app.py) or no row at
\* all (views)
ZeroStats ==
    [goals_scored |-> Zero, assists |-> Zero, total_points |-> Zero,
     value |-> Zero, goal_contributions |-> Zero]

\* the fallback on the player's history
HistoryStats(history) ==
    LET recent_games == NLargestGw(history, RecentGames)
    IN  [goals_scored |-> Mean(recent_games, "goals_scored"),
         assists |-> Mean(recent_games, "assists"),
         total_points |-> Mean(recent_games, "total_points"),
         value |-> Num(history[Len(history)].now_cost),
         goal_contributions |-> RatAdd(Mean(recent_games, "goals_scored"),
                                       Mean(recent_games, "assists"))]

\* the stats taken from the last row of the gameweek
PlayerStatsViewsLast(name, g) ==
    LET player_gw_data == PlayerGwData(name, g)
        player_history == PlayerHistory(name)
    IN  IF Len(player_gw_data) > 0
        THEN RowToDict(player_gw_data[Len(player_gw_data)])
        ELSE IF Len(player_history) > 0 THEN HistoryStats(player_history)
        ELSE ZeroStats

PlayerStatsViews(name, g) ==
    LET player_gw_data == PlayerGwData(name, g)
        player_history == PlayerHistory(name)
    IN  IF Len(player_gw_data) > 0 THEN RowToDict(player_gw_data[1])
        ELSE IF Len(player_history) > 0 THEN HistoryStats(player_history)
        ELSE ZeroStats

PlayerStatsApp(name, g) ==
    LET player_gw_data == PlayerGwData(name, g)
    IN  IF Len(player_gw_data) > 0 THEN RowToDict(player_gw_data[1])
        ELSE ZeroStats

AnalysisRow(pick, name, team, player_stats) ==
    [element_id |-> pick.element,
     player_name |-> name,
     team |-> team,
     position |-> DictGet(PositionMap, pick.element_type, "Unknown"),
     position_number |-> pick.position,
     is_captain |-> pick.is_captain,
     is_vice_captain |-> pick.is_vice_captain,
     multiplier |-> pick.multiplier,
     gw_points |-> DictGet(player_stats, "total_points", Zero),
     goals |-> DictGet(player_stats, "goals_scored", Zero),
     assists |-> DictGet(player_stats, "assists", Zero),
     goal_contributions |-> DictGet(player_stats, "goal_contributions", Zero),
     value |-> DictGet(player_stats, "value", Zero),
     in_squad |-> pick.position <= StartingSlots]

\* app.py's rows have no team column
NoTeam == "-"

\* one iteration of `for pick in picks:` in views/manager_analysis.py
ReconcilePickViews ==
    /\ pc = "mapped"
    /\ impl = "views"
    /\ HasPlayerMap
    /\ Len(team_analysis) < Len(manager_data.picks)
    /\ LET pick == manager_data.picks[Len(team_analysis) + 1]
           name == PlayerNameViews(pick.element)
       IN  team_analysis' =
               Append(team_analysis,
                      AnalysisRow(pick, name, TeamNameOf(pick.element),
                                  PlayerStatsViews(name, gw)))
    /\ UNCHANGED <<session, pitch, current_gw, df, pc, gw, outcome, manager_data, player_map, teams,
                   analysis_df, raised, error, cards, captain_out,
                   summary_out, insights_out>>

\* one iteration of `for pick in picks:` in app.py
ReconcilePickApp ==
    /\ pc = "mapped"
    /\ impl = "app"
    /\ HasPlayerMap
    /\ Len(team_analysis) < Len(manager_data.picks)
    /\ LET pick == manager_data.picks[Len(team_analysis) + 1]
           name == PlayerNameApp(pick.element)
       IN  team_analysis' =
               Append(team_analysis,
                      AnalysisRow(pick, name, NoTeam, PlayerStatsApp(name, gw)))
    /\ UNCHANGED <<session, pitch, current_gw, df, pc, gw, outcome, manager_data, player_map, teams,
                   analysis_df, raised, error, cards, captain_out,
                   summary_out, insights_out>>

RECURSIVE InsertByPosition(_, _)
InsertByPosition(s, r) ==
    IF s = <<>> THEN <<r>>
    ELSE IF Head(s).position_number <= r.position_number
         THEN <<Head(s)>> \o InsertByPosition(Tail(s), r)
    ELSE <<r>> \o s

RECURSIVE SortByPosition(_)
\* analysis_df.sort_values('position_number')
SortByPosition(s) ==
    IF s = <<>> THEN <<>>
    ELSE InsertByPosition(SortByPosition(SubSeq(s, 1, Len(s) - 1)), s[Len(s)])

\* pd.DataFrame(team_analysis).sort_values('position_number'): a frame built
\* from an empty list has no column, and sorting it raises KeyError
BuildFrame ==
    /\ pc = "mapped"
    /\ HasPlayerMap
    /\ Len(team_analysis) = Len(manager_data.picks)
    /\ IF team_analysis = <<>>
       THEN /\ raised' = "KeyError"
            /\ pc' = "crashed"
            /\ UNCHANGED analysis_df
       ELSE /\ analysis_df' = SortByPosition(team_analysis)
            /\ pc' = "summary"
            /\ UNCHANGED raised
    /\ UNCHANGED <<session, pitch, current_gw, df, gw, outcome, manager_data, player_map, teams,
                   team_analysis, error, cards, captain_out,
                   summary_out, insights_out>>

----------------------------------------------------------------------------
(* The tabs. *)

\* analysis_df[analysis_df['in_squad']]
StartingXI(frame) == SelectSeq(frame, LAMBDA r : r.in_squad)

\* the picks that were not used: those of multiplier 0
BenchUnused(frame) == SelectSeq(frame, LAMBDA r : r.multiplier = 0)

\* analysis_df[~analysis_df['in_squad']]
Bench(frame) == SelectSeq(frame, LAMBDA r : ~r.in_squad)

\* the points a starter's card shows in views/manager_analysis.py
CardPoints(player) ==
    LET base_points == player.gw_points
        multiplier == player.multiplier
        total_points == RatTimes(base_points, multiplier)
    IN  IF multiplier > 1 THEN total_points ELSE base_points

Card(player, points) ==
    [player_name |-> player.player_name, position_number |-> player.position_number,
     points |-> points]

\* the picks whose points count, whatever their flag
CaptainByMultiplier(frame) == SelectSeq(frame, LAMBDA r : r.multiplier >= 1)

\* analysis_df[analysis_df['is_captain']]
CaptainData(frame) == SelectSeq(frame, LAMBDA r : r.is_captain)

\* the bench as the Summary tab lists it: each player's gw_points
BenchCards(frame) ==
    LET bench == Bench(frame)
    IN  [i \in 1..Len(bench) |-> Card(bench[i], bench[i].gw_points)]

SummaryTabViews ==
    /\ pc = "summary"
    /\ impl = "views"
    /\ LET starting_xi == StartingXI(analysis_df)
       IN  cards' = [i \in 1..Len(starting_xi) |->
                        Card(starting_xi[i], CardPoints(starting_xi[i]))]
    /\ summary_out' = [NoSummaryOut EXCEPT !.rendered = TRUE,
                                           !.bench = BenchCards(analysis_df)]
    /\ pc' = "captain"
    /\ UNCHANGED <<session, pitch, current_gw, df, gw, outcome, manager_data, player_map, teams,
                   team_analysis, analysis_df, raised, error, captain_out,
                   insights_out>>

\* the whole of the captain's points, base included
CaptainBonusWhole(captain) == RatTimes(captain.gw_points, captain.multiplier)

\* captain_points = captain_base * captain_multiplier - captain_base
CaptainBonus(captain) ==
    LET captain_multiplier == captain.multiplier
        captain_base == captain.gw_points
    IN  RatSub(RatTimes(captain_base, captain_multiplier), captain_base)

\* "Calculate team metrics" of app.py, for a non-empty starting XI
TeamMetrics(starting_xi) ==
    LET total_points == RatSum(Column(starting_xi, "gw_points"))
        captain_row == CaptainData(starting_xi)
        captain_points == IF Len(captain_row) > 0
                          THEN CaptainBonus(captain_row[1]) ELSE Zero
    IN  [total_points |-> total_points, captain_points |-> captain_points,
         bonus_shown |-> RatLess(Zero, captain_points)]

\* bench['gw_points'].sum()
BenchPoints(bench) == RatSum(Column(bench, "gw_points"))

\* app.py lists the starters' gw_points beside their multiplier, then the
\* team metrics, then the bench and its total
SummaryTabApp ==
    /\ pc = "summary"
    /\ impl = "app"
    /\ LET starting_xi == StartingXI(analysis_df)
           bench == Bench(analysis_df)
           shown == Len(starting_xi) > 0
           metrics == IF shown THEN TeamMetrics(starting_xi)
                      ELSE [total_points |-> Zero, captain_points |-> Zero,
                            bonus_shown |-> FALSE]
       IN  /\ cards' = [i \in 1..Len(starting_xi) |->
                            Card(starting_xi[i], starting_xi[i].gw_points)]
           /\ summary_out' =
                [rendered |-> TRUE, totals_shown |-> shown,
                 total_points |-> metrics.total_points,
                 captain_points |-> metrics.captain_points,
                 bonus_shown |-> metrics.bonus_shown,
                 bench |-> BenchCards(analysis_df),
                 bench_total_shown |-> Len(bench) > 0,
                 bench_points |-> IF Len(bench) > 0 THEN BenchPoints(bench)
                                  ELSE Zero]
    /\ pc' = "captain"
    /\ UNCHANGED <<session, pitch, current_gw, df, gw, outcome, manager_data, player_map, teams,
                   team_analysis, analysis_df, raised, error, captain_out,
                   insights_out>>

\* captain['gw_points'] * captain['multiplier']
CaptainTotal(captain) == RatTimes(captain.gw_points, captain.multiplier)

\* analysis_df['gw_points'].idxmax(): the first row of greatest gw_points
IdxMax(frame) ==
    CHOOSE i \in 1..Len(frame) :
        /\ \A j \in 1..Len(frame) : ~RatLess(frame[i].gw_points, frame[j].gw_points)
        /\ \A j \in 1..(i - 1) : RatLess(frame[j].gw_points, frame[i].gw_points)

CaptainTabViews ==
    /\ pc = "captain"
    /\ impl = "views"
    /\ LET captain_data == CaptainData(analysis_df)
       IN  captain_out' =
             IF Len(captain_data) > 0
             THEN [status |-> "captain", player_name |-> captain_data[1].player_name,
                   total |-> CaptainTotal(captain_data[1]),
                   verdict |-> "n/a", points_diff |-> Zero]
             ELSE [NoCaptainOut EXCEPT !.status = "No captain selected for this gameweek"]
    /\ pc' = "insights"
    /\ UNCHANGED <<session, pitch, current_gw, df, gw, outcome, manager_data, player_map, teams,
                   team_analysis, analysis_df, raised, error, cards,
                   summary_out, insights_out>>

\* "Was this the optimal captain choice?" of app.py
CaptainVerdict(frame, captain) ==
    LET highest_scorer == frame[IdxMax(frame)]
    IN  IF highest_scorer.player_name # captain.player_name
        THEN [verdict |-> "suboptimal",
              points_diff |-> RatSub(RatTimes(highest_scorer.gw_points, 2),
                                     CaptainTotal(captain))]
        ELSE [verdict |-> "optimal", points_diff |-> Zero]

CaptainTabApp ==
    /\ pc = "captain"
    /\ impl = "app"
    /\ LET captain_data == CaptainData(analysis_df)
       IN  captain_out' =
             IF Len(captain_data) > 0
             THEN LET v == CaptainVerdict(analysis_df, captain_data[1])
                  IN  [status |-> "captain",
                       player_name |-> captain_data[1].player_name,
                       total |-> CaptainTotal(captain_data[1]),
                       verdict |-> v.verdict, points_diff |-> v.points_diff]
             ELSE [NoCaptainOut EXCEPT !.status = "No captain selected for this gameweek"]
    /\ pc' = "insights"
    /\ UNCHANGED <<session, pitch, current_gw, df, gw, outcome, manager_data, player_map, teams,
                   team_analysis, analysis_df, raised, error, cards,
                   summary_out, insights_out>>

----------------------------------------------------------------------------
(* The insights: the Insights tab of views/manager_analysis.py and the     *)
(* "Team Insights" section of app.py.                                      *)

\* the index of a groupby('position') result: the group keys, sorted
GroupOrder == <<"DEF", "FWD", "GK", "MID", "Unknown">>

\* analysis_df.groupby('position')['gw_points'].sum()
PointsByPos(frame) ==
    [p \in {frame[i].position : i \in 1..Len(frame)} |->
        RatSum(Column(SelectSeq(frame, LAMBDA r : r.position = p), "gw_points"))]

\* points_by_pos.idxmax(): the first label of the index with the greatest sum
BestPosition(points_by_pos) ==
    LET index == SelectSeq(GroupOrder, LAMBDA p : p \in DOMAIN points_by_pos)
        first == CHOOSE i \in 1..Len(index) :
                    /\ \A j \in 1..Len(index) :
                          ~RatLess(points_by_pos[index[i]], points_by_pos[index[j]])
                    /\ \A j \in 1..(i - 1) :
                          RatLess(points_by_pos[index[j]], points_by_pos[index[i]])
    IN  index[first]

RECURSIVE InsertDesc(_, _, _)
InsertDesc(s, r, col) ==
    IF s = <<>> THEN <<r>>
    ELSE IF ~RatLess(Head(s)[col], r[col])
         THEN <<Head(s)>> \o InsertDesc(Tail(s), r, col)
         ELSE <<r>> \o s

RECURSIVE SortDesc(_, _)
SortDesc(s, col) ==
    IF s = <<>> THEN <<>>
    ELSE InsertDesc(SortDesc(SubSeq(s, 1, Len(s) - 1), col), s[Len(s)], col)

RECURSIVE InsertAsc(_, _, _)
InsertAsc(s, r, col) ==
    IF s = <<>> THEN <<r>>
    ELSE IF ~RatLess(r[col], Head(s)[col])
         THEN <<Head(s)>> \o InsertAsc(Tail(s), r, col)
         ELSE <<r>> \o s

RECURSIVE SortAsc(_, _)
SortAsc(s, col) ==
    IF s = <<>> THEN <<>>
    ELSE InsertAsc(SortAsc(SubSeq(s, 1, Len(s) - 1), col), s[Len(s)], col)

\* DataFrame.nlargest(n, col): the n rows of greatest col in descending
\* order, the first encountered kept among equal ones
NLargest(rows, n, col) ==
    LET sorted == SortDesc(rows, col)
    IN  SubSeq(sorted, 1, IF Len(sorted) < n THEN Len(sorted) ELSE n)

\* DataFrame.nsmallest(n, col)
NSmallest(rows, n, col) ==
    LET sorted == SortAsc(rows, col)
    IN  SubSeq(sorted, 1, IF Len(sorted) < n THEN Len(sorted) ELSE n)

\* Series.median() of a non-empty column
Median(rows, col) ==
    LET sorted == Column(SortAsc(rows, col), col)
        n == Len(sorted)
    IN  IF n % 2 = 1 THEN sorted[(n + 1) \div 2]
        ELSE RatDiv(RatAdd(sorted[n \div 2], sorted[n \div 2 + 1]), Num(2))

\* no epsilon at all
NoEpsilon == Zero

\* the 0.001 added to the cost in $M
EfficiencyEpsilon == Frac(1, 1000)

\* analysis_df['value'] / 10 + 0.001
EfficiencyDenominator(player) ==
    RatAdd(RatDiv(player.value, Num(CostUnitsPerMillion)), EfficiencyEpsilon)

\* A float quotient, kept as its exact operands: the points and the
\* denominator (the reduced fraction of a cost in the millions does not fit
\* the integers of the model checker).
Quotient(a, b) == [num |-> a, den |-> b]

\* numpy's float division yields inf or nan on a zero divisor, no exception
IsFinite(x) == x.den.n # 0

RECURSIVE CFLess(_, _, _, _)
\* a / b < c / d for a, c >= 0 and b, d > 0, by continued fractions
CFLess(a, b, c, d) ==
    LET q1 == a \div b
        q2 == c \div d
        r1 == a % b
        r2 == c % d
    IN  IF q1 # q2 THEN q1 < q2
        ELSE IF r2 = 0 THEN FALSE
        ELSE IF r1 = 0 THEN TRUE
        ELSE CFLess(d, r2, b, r1)

\* x < y for quotients of non-negative points; inf is above every finite
\* value
QuotLess(x, y) ==
    IF ~IsFinite(x) \/ ~IsFinite(y) THEN IsFinite(x) /\ ~IsFinite(y)
    ELSE LET g == GCD(x.den.d, y.den.d)
             A == x.num.n * y.num.d
             C == y.num.n * x.num.d
             E == y.den.n * (x.den.d \div g)
             F == x.den.n * (y.den.d \div g)
         IN  IF C = 0 THEN FALSE
             ELSE IF A = 0 THEN TRUE
             ELSE CFLess(A, C, F, E)

\* analysis_df['gw_points'] / (analysis_df['value'] / 10 + 0.001)
ValueEfficiency(player) == Quotient(player.gw_points, EfficiencyDenominator(player))

\* analysis_df['value_efficiency'] = ...: the frame gains a column
WithValueEfficiency(frame) ==
    [i \in 1..Len(frame) |->
        [c \in DOMAIN frame[i] \cup {"value_efficiency"} |->
            IF c = "value_efficiency" THEN ValueEfficiency(frame[i])
            ELSE frame[i][c]]]

RECURSIVE InsertByEfficiency(_, _)
InsertByEfficiency(s, r) ==
    IF s = <<>> THEN <<r>>
    ELSE IF ~QuotLess(Head(s).value_efficiency, r.value_efficiency)
         THEN <<Head(s)>> \o InsertByEfficiency(Tail(s), r)
         ELSE <<r>> \o s

RECURSIVE SortByEfficiency(_)
SortByEfficiency(s) ==
    IF s = <<>> THEN <<>>
    ELSE InsertByEfficiency(SortByEfficiency(SubSeq(s, 1, Len(s) - 1)), s[Len(s)])

\* the first n rows of the frame, whatever their efficiency
FirstRows(rows, n) ==
    SubSeq(rows, 1, IF Len(rows) < n THEN Len(rows) ELSE n)

\* analysis_df.nlargest(n, 'value_efficiency'): the n rows of greatest
\* efficiency in descending order, the first encountered kept among equal ones
NLargestEfficiency(rows, n) ==
    LET sorted == SortByEfficiency(rows)
    IN  SubSeq(sorted, 1, IF Len(sorted) < n THEN Len(sorted) ELSE n)

\* the share of the starters' mean below which a starter underperforms
UnderperformerShare == Frac(7, 10)

\* starters at or below the threshold
UnderperformersInclusive(frame) ==
    LET starting_players == StartingXI(frame)
    IN  IF Len(starting_players) > 0
        THEN LET avg_points == RatMean(Column(starting_players, "gw_points"))
             IN  SelectSeq(starting_players,
                           LAMBDA r : ~RatLess(RatMul(avg_points, UnderperformerShare),
                                               r.gw_points))
        ELSE <<>>

\* starting_players[starting_players['gw_points'] < avg_points * 0.7]
Underperformers(frame) ==
    LET starting_players == StartingXI(frame)
    IN  IF Len(starting_players) > 0
        THEN LET avg_points == RatMean(Column(starting_players, "gw_points"))
             IN  SelectSeq(starting_players,
                           LAMBDA r : RatLess(r.gw_points,
                                              RatMul(avg_points, UnderperformerShare)))
        ELSE <<>>

\* the check with `bench_points >= starter_points`
LineupCheckAtLeast(frame) ==
    LET starting_players == StartingXI(frame)
        bench_players == Bench(frame)
        worst_starter == NSmallest(starting_players, 1, "gw_points")
    IN  IF Len(bench_players) > 0 /\ Len(worst_starter) > 0
        THEN LET best_bench == NLargest(bench_players, 1, "gw_points")
                 bench_points == best_bench[1].gw_points
                 starter_points == worst_starter[1].gw_points
             IN  IF ~RatLess(bench_points, starter_points)
                 THEN [status |-> "suboptimal",
                       bench_player |-> best_bench[1].player_name,
                       starter |-> worst_starter[1].player_name,
                       points_diff |-> RatSub(bench_points, starter_points)]
                 ELSE [NoLineupCheck EXCEPT !.status = "optimal"]
        ELSE NoLineupCheck

\* "3. Optimal lineup check" of the Insights tab
LineupCheck(frame) ==
    LET starting_players == StartingXI(frame)
        bench_players == Bench(frame)
        worst_starter == NSmallest(starting_players, 1, "gw_points")
    IN  IF Len(bench_players) > 0 /\ Len(worst_starter) > 0
        THEN LET best_bench == NLargest(bench_players, 1, "gw_points")
                 bench_points == best_bench[1].gw_points
                 starter_points == worst_starter[1].gw_points
             IN  IF RatLess(starter_points, bench_points)
                 THEN [status |-> "suboptimal",
                       bench_player |-> best_bench[1].player_name,
                       starter |-> worst_starter[1].player_name,
                       points_diff |-> RatSub(bench_points, starter_points)]
                 ELSE [NoLineupCheck EXCEPT !.status = "optimal"]
        ELSE NoLineupCheck

\* the column written to the dataset the view was given
DatasetWithEfficiency(d) == [d EXCEPT !.columns = @ \cup {"value_efficiency"}]

\* analysis_df['value_efficiency'] = ...: the column is written to
\* analysis_df, a frame built from team_analysis that shares nothing with
\* df, so the dataset is as it was
DatasetAfterInsights(d) == d

\* the Insights tab of views/manager_analysis.py
InsightsTabViews ==
    /\ pc = "insights"
    /\ impl = "views"
    /\ analysis_df' = WithValueEfficiency(analysis_df)
    /\ df' = DatasetAfterInsights(df)
    /\ LET starting_players == StartingXI(analysis_df')
       IN  insights_out' =
             [rendered |-> TRUE,
              points_by_pos |-> PointsByPos(analysis_df),
              best_position |-> "",
              best_position_points |-> 0,
              best_player |-> "",
              avg_points |-> IF Len(starting_players) > 0
                             THEN RatMean(Column(starting_players, "gw_points"))
                             ELSE Zero,
              efficient_players |->
                  NLargestEfficiency(analysis_df', TopEfficient),
              underperformers |-> Underperformers(analysis_df'),
              lineup |-> LineupCheck(analysis_df')]
    /\ pc' = "done"
    /\ UNCHANGED <<session, pitch, current_gw, gw, outcome, manager_data, player_map, teams,
                   team_analysis, raised, error, cards, captain_out, summary_out>>

\* starters below the squad's median gw_points
UnderperformersApp(frame) ==
    SelectSeq(frame, LAMBDA r : r.in_squad
                                /\ RatLess(r.gw_points, Median(frame, "gw_points")))

\* "Team Insights" and "Transfer Suggestions" of app.py
InsightsApp ==
    /\ pc = "insights"
    /\ impl = "app"
    /\ LET best_player == analysis_df[IdxMax(analysis_df)]
           points_by_pos == PointsByPos(analysis_df)
           best_position == BestPosition(points_by_pos)
       IN  insights_out' =
             [rendered |-> TRUE,
              points_by_pos |-> points_by_pos,
              best_position |-> best_position,
              best_position_points |-> IntOf(points_by_pos[best_position]),
              best_player |-> best_player.player_name,
              avg_points |-> RatMean(Column(analysis_df, "gw_points")),
              efficient_players |-> <<>>,
              underperformers |-> UnderperformersApp(analysis_df),
              lineup |-> NoLineupCheck]
    /\ pc' = "done"
    /\ UNCHANGED <<session, pitch, current_gw, df, gw, outcome, manager_data, player_map, teams,
                   team_analysis, analysis_df, raised, error, cards, captain_out,
                   summary_out>>

----------------------------------------------------------------------------
(* The pitch view of views/position_analysis.py. *)

\* what pd.merge(..., how='left') makes of a pick without row: NaN
Unmatched(pick) ==
    [element |-> pick.element, has_row |-> FALSE, position_y |-> 0,
     player_name |-> "", now_cost |-> 0, total_points |-> 0]

\* a pick beside one of its rows
Matched(pick, r) ==
    [element |-> pick.element, has_row |-> TRUE, position_y |-> r.position,
     player_name |-> r.player_name, now_cost |-> r.now_cost,
     total_points |-> r.total_points]

RECURSIVE MergeLeft(_, _)
\* pd.merge(df_manager_team, rows, left_on='element', right_on='player_id',
\* how='left'): the picks in their order, each beside every row of its
\* player, or alone
MergeLeft(picks, rows) ==
    IF picks = <<>> THEN <<>>
    ELSE LET pick == Head(picks)
             found == SelectSeq(rows, LAMBDA r : r.player_id = pick.element)
         IN  (IF found = <<>> THEN <<Unmatched(pick)>>
              ELSE [k \in 1..Len(found) |-> Matched(pick, found[k])])
             \o MergeLeft(Tail(picks), rows)

\* df_manager_team_detailed[df_manager_team_detailed['position_y'] == p]
OfPosition(merged, p) ==
    SelectSeq(merged, LAMBDA m : m.has_row /\ m.position_y = p)

\* the merged frame of the pitch view
TeamDetailed(data, d, g) ==
    MergeLeft(data.picks, SelectSeq(d.rows, LAMBDA r : r.gw = g))

\* the exception the pitch view ends with, "none" when it shows the image:
\* the merge needs the column element, which an empty frame lacks, and the
\* column player_id; position_y exists when the dataset has a column
\* position; .values[0] needs a goalkeeper and .values[i], i < 5, five
\* defenders and five midfielders
PitchError(data, d, g) ==
    IF data.is_none \/ data.picks = <<>> THEN "KeyError"
    ELSE IF "player_id" \notin d.columns THEN "KeyError"
    ELSE IF "position" \notin d.columns THEN "AttributeError"
    ELSE LET merged == TeamDetailed(data, d, g)
         IN  IF OfPosition(merged, 1) = <<>> THEN "IndexError"
             ELSE IF Len(OfPosition(merged, 2)) < PitchSlots THEN
                    IF OfPosition(merged, 2) # <<>> /\ "photo" \notin d.columns
                    THEN "KeyError" ELSE "IndexError"
             ELSE IF "photo" \notin d.columns THEN "KeyError"
             ELSE IF Len(OfPosition(merged, 3)) < PitchSlots THEN "IndexError"
             ELSE "none"

\* the names drawn: the goalkeeper, five defenders, five midfielders
PitchNames(merged) ==
    <<OfPosition(merged, 1)[1].player_name>>
    \o [i \in 1..PitchSlots |-> OfPosition(merged, 2)[i].player_name]
    \o [i \in 1..PitchSlots |-> OfPosition(merged, 3)[i].player_name]

\* the body of `if manager_id and st.button(...)` of the pitch view
PitchView ==
    /\ pc = "fetched"
    /\ impl = "pitch"
    /\ LET e == PitchError(manager_data, df, gw)
       IN  IF e = "none"
           THEN /\ pitch' = PitchNames(TeamDetailed(manager_data, df, gw))
                /\ pc' = "done"
                /\ UNCHANGED raised
           ELSE /\ raised' = e
                /\ pc' = "crashed"
                /\ UNCHANGED pitch
    /\ UNCHANGED <<session, current_gw, df, gw, outcome, manager_data,
                   player_map, teams, team_analysis, analysis_df, error, cards,
                   captain_out, summary_out, insights_out>>

\* the rows a finished analysis leaves behind, kept for the next one
StaleRows == team_analysis

\* team_analysis = []: every analysis starts from an empty list of rows
FreshRows == <<>>

\* any interaction reruns the script; the loaded dataset is cached
Rerun ==
    /\ pc \in {"done", "crashed"}
    /\ pc' = "idle"
    /\ current_gw' = NoGw
    /\ gw' = MinGW
    /\ outcome' = "none"
    /\ manager_data' = NoneData
    /\ player_map' = EmptyDict
    /\ teams' = EmptyDict
    /\ team_analysis' = FreshRows
    /\ analysis_df' = <<>>
    /\ raised' = "none"
    /\ error' = ""
    /\ cards' = <<>>
    /\ captain_out' = NoCaptainOut
    /\ summary_out' = NoSummaryOut
    /\ insights_out' = NoInsightsOut
    /\ pitch' = <<>>
    /\ UNCHANGED <<session, df>>

Next ==
    \/ LoadCsv
    \/ LoadMissingColumns
    \/ LoadNotFound
    \/ RequestViews
    \/ RequestApp
    \/ FetchManagerDataViews
    \/ FetchManagerDataApp
    \/ NoManagerData
    \/ FetchPlayerMapping
    \/ NoPlayerMap
    \/ ReconcilePickViews
    \/ ReconcilePickApp
    \/ BuildFrame
    \/ SummaryTabViews
    \/ SummaryTabApp
    \/ CaptainTabViews
    \/ CaptainTabApp
    \/ InsightsTabViews
    \/ InsightsApp
    \/ PitchView
    \/ Rerun

Spec == Init /\ [][Next]_vars

----------------------------------------------------------------------------
(* Properties. *)

\* the reconciliation loop was entered and the run has gone past it
Reconciled ==
    /\ pc \in {"summary", "captain", "insights", "done"}
    /\ ~manager_data.is_none
    /\ DOMAIN player_map # {}

\* the player of reconciled row i has no row for the requested gameweek
\* and has some row
IsFallback(i) ==
    /\ Len(PlayerGwData(team_analysis[i].player_name, gw)) = 0
    /\ Len(PlayerHistory(team_analysis[i].player_name)) > 0

\* the greatest gameweek among rows
MaxGwOf(rows) ==
    CHOOSE g \in {rows[k].gw : k \in 1..Len(rows)} :
        \A k \in 1..Len(rows) : rows[k].gw <= g

\* C1: a pick whose resolved name has a row for the requested gameweek gets
\* that row's goals_scored, assists, total_points, goal_contributions and,
\* as its cost, that row's now_cost.
C1_ExactMatchUsesRow ==
    \A i \in 1..Len(team_analysis) :
        LET rec == team_analysis[i]
            hits == PlayerGwData(rec.player_name, gw)
        IN  Len(hits) > 0 =>
                \E k \in 1..Len(hits) :
                    /\ rec.goals = Num(hits[k].goals_scored)
                    /\ rec.assists = Num(hits[k].assists)
                    /\ rec.gw_points = Num(hits[k].total_points)
                    /\ rec.goal_contributions = Num(hits[k].goal_contributions)
                    /\ rec.value = Num(hits[k].now_cost)

\* C2: in the fallback case the goals, assists and points are the means over
\* the (up to) 3 rows of greatest gameweek among the player's rows with
\* gameweek <= the requested one; later rows never contribute.
C2_FallbackMeanUpToRequested ==
    \A i \in 1..Len(team_analysis) :
        LET rec == team_analysis[i]
            upto == SelectSeq(PlayerHistory(rec.player_name), LAMBDA r : r.gw <= gw)
            recent == NLargestGw(upto, RecentGames)
        IN  (impl = "views" /\ IsFallback(i) /\ Len(upto) > 0) =>
                /\ rec.goals = Mean(recent, "goals_scored")
                /\ rec.assists = Mean(recent, "assists")
                /\ rec.gw_points = Mean(recent, "total_points")

\* C3: in the fallback case the cost is the now_cost of a row of the
\* player's greatest gameweek, whatever the order of the rows in the file.
C3_FallbackCostIsLatestRow ==
    \A i \in 1..Len(team_analysis) :
        LET rec == team_analysis[i]
            history == PlayerHistory(rec.player_name)
        IN  (impl = "views" /\ IsFallback(i)) =>
                \E k \in 1..Len(history) :
                    /\ history[k].gw = MaxGwOf(history)
                    /\ rec.value = Num(history[k].now_cost)

\* C3's case: a fallback for a player whose last row in the file is not
\* the row of his greatest gameweek
C3_Witness ==
    \E i \in 1..Len(team_analysis) :
        LET in_file == SelectSeq(file.rows,
                           LAMBDA r : r.player_name = team_analysis[i].player_name)
        IN  /\ impl = "views"
            /\ file = FixedFile \/ file \in CsvFiles
            /\ df.rows # <<>>
            /\ IsFallback(i)
            /\ Len(in_file) > 1
            /\ in_file[Len(in_file)].gw < MaxGwOf(in_file)

\* C4: a pick whose resolved name has no row at all in the dataset gets
\* zero goals, assists, points, goal contributions and cost, and the
\* remaining picks are reconciled all the same.
C4_NoHistoryAllZero ==
    /\ \A i \in 1..Len(team_analysis) :
        LET rec == team_analysis[i]
        IN  Len(PlayerHistory(rec.player_name)) = 0 =>
                /\ rec.goals = Zero
                /\ rec.assists = Zero
                /\ rec.gw_points = Zero
                /\ rec.goal_contributions = Zero
                /\ rec.value = Zero
    /\ Reconciled => Len(team_analysis) = Len(manager_data.picks)

\* C4's case: a pick without history was reconciled and a later pick of a
\* player with history was reconciled after it
C4_Witness ==
    /\ Reconciled
    /\ \E i, j \in 1..Len(team_analysis) :
        /\ i < j
        /\ Len(PlayerHistory(team_analysis[i].player_name)) = 0
        /\ Len(PlayerHistory(team_analysis[j].player_name)) > 0
        /\ team_analysis[j].gw_points # Zero

\* C5: a pick whose player id is absent from the directory is named
\* "Player_<id>" with the team "Unknown", and every pick is reconciled.
C5_MissingIdentityPlaceholder ==
    /\ \A i \in 1..Len(team_analysis) :
        LET rec == team_analysis[i]
        IN  rec.element_id \notin DOMAIN player_map =>
                /\ rec.player_name = "Player_" \o ToString(rec.element_id)
                /\ impl = "views" => rec.team = "Unknown"
    /\ Reconciled =>
        /\ Len(team_analysis) = Len(manager_data.picks)
        /\ \A i \in 1..Len(team_analysis) :
                team_analysis[i].element_id = manager_data.picks[i].element

\* C5's case: an absent id was reconciled before a pick the directory knows
C5_Witness ==
    /\ Reconciled
    /\ impl = "views"
    /\ \E i, j \in 1..Len(team_analysis) :
        /\ i < j
        /\ team_analysis[i].element_id \notin DOMAIN player_map
        /\ team_analysis[j].element_id \in DOMAIN player_map
        /\ team_analysis[j].team # "Unknown"

\* C6: whenever the team-snapshot request fails (HTTP error status, timeout,
\* connection failure), fetch_manager_data returns None and raises nothing.
C6_FetchFailureReturnsNone ==
    outcome \in Outcomes \ {"ok"} => (manager_data.is_none /\ raised = "none")

\* C7: a team snapshot with an empty picks list is analysed without raising.
C7_EmptyPicksNoRaise ==
    (~manager_data.is_none /\ Len(manager_data.picks) = 0) => raised = "none"

C9_ReportedPointsAreBaseTimesMultiplier ==
    impl = "views" =>
        /\ \A i \in 1..Len(cards) :
            LET player == StartingXI(analysis_df)[i]
            IN  cards[i].points = RatTimes(player.gw_points, player.multiplier)
        /\ captain_out.status = "captain" =>
            \E i \in 1..Len(analysis_df) :
                /\ analysis_df[i].is_captain
                /\ captain_out.total
                     = RatTimes(analysis_df[i].gw_points, analysis_df[i].multiplier)

\* base points times multiplier
Effective(player) == RatTimes(player.gw_points, player.multiplier)

\* C10: with a captain present, the verdict is "optimal" exactly when the
\* captain's effective points equal the greatest effective points of all
\* picks, bench included; a captain who ties for the maximum is optimal.
C10_OptimalIffCaptainHasMaxEffective ==
    (impl = "app" /\ captain_out.status = "captain") =>
        (captain_out.verdict = "optimal"
            <=> \A j \in 1..Len(analysis_df) :
                    ~RatLess(captain_out.total, Effective(analysis_df[j])))

\* the starters that are not flagged captain
OtherStarters(frame) == SelectSeq(frame, LAMBDA r : r.in_squad /\ ~r.is_captain)

\* the greatest value of a non-empty sequence of fractions
RatMax(s) ==
    LET i == CHOOSE i \in 1..Len(s) : \A j \in 1..Len(s) : ~RatLess(s[i], s[j])
    IN  s[i]

\* the least value of a non-empty sequence of fractions
RatMin(s) ==
    LET i == CHOOSE i \in 1..Len(s) : \A j \in 1..Len(s) : ~RatLess(s[j], s[i])
    IN  s[i]

\* C11: whenever some non-captain starter's base points times 2 exceed the
\* effective points of the captain (a starter), the captain diagnostic says
\* "suboptimal" and its differential is the best such starter's base points
\* times 2 minus the captain's effective points.
C11_SuboptimalWhenDoubledStarterBeatsCaptain ==
    (impl = "app" /\ captain_out.status = "captain") =>
        \A c \in 1..Len(analysis_df) :
            LET captain == analysis_df[c]
                others == Column(OtherStarters(analysis_df), "gw_points")
            IN  (/\ captain.is_captain
                 /\ captain.in_squad
                 /\ Len(others) > 0
                 /\ RatLess(Effective(captain), RatTimes(RatMax(others), 2)))
                => /\ captain_out.verdict = "suboptimal"
                   /\ captain_out.points_diff
                        = RatSub(RatTimes(RatMax(others), 2), Effective(captain))

\* C12: the captain diagnostic considers only the starting lineup (slot <=
\* 11): whoever it treats as the captain is a starter flagged is-captain, and
\* a pick flagged is-captain in a bench slot is never treated as the captain.
C12_CaptainIsAStarter ==
    captain_out.status = "captain" =>
        \E i \in 1..Len(analysis_df) :
            /\ analysis_df[i].is_captain
            /\ analysis_df[i].position_number <= StartingSlots
            /\ analysis_df[i].player_name = captain_out.player_name

\* C13: when the squad has picks and none is flagged is-captain, the captain
\* diagnostic reports "No captain selected for this gameweek", nothing is
\* raised, and the run ends with the insights (underperformers and lineup
\* check included) rendered.
C13_NoCaptainReportedAndAnalysisCompletes ==
    (analysis_df # <<>> /\ \A i \in 1..Len(analysis_df) : ~analysis_df[i].is_captain) =>
        /\ raised = "none"
        /\ pc # "crashed"
        /\ pc \in {"insights", "done"} =>
                /\ captain_out.status = "No captain selected for this gameweek"
                /\ captain_out.player_name = ""
        /\ pc = "done" =>
                /\ insights_out.rendered
                /\ DOMAIN insights_out.points_by_pos # {}
                /\ impl = "views" =>
                    /\ Len(insights_out.efficient_players) > 0
                    /\ (insights_out.lineup.status = "not checked")
                         = (\A i, j \in 1..Len(analysis_df) :
                                analysis_df[i].in_squad = analysis_df[j].in_squad)

\* C13's case: a run of the view on a squad without a captain ended with an
\* underperformer named and the lineup check made
C13_Witness ==
    /\ pc = "done"
    /\ impl = "views"
    /\ Len(analysis_df) > 1
    /\ \A i \in 1..Len(analysis_df) : ~analysis_df[i].is_captain
    /\ captain_out.status = "No captain selected for this gameweek"
    /\ Len(insights_out.underperformers) > 0
    /\ insights_out.lineup.status = "suboptimal"

\* C14: when a starter is flagged captain, the captain bonus computed by the
\* Summary tab of app.py is that captain's base points times (multiplier - 1),
\* for every multiplier 0..3.
C14_CaptainBonusIsBaseTimesMultiplierLessOne ==
    (impl = "app" /\ summary_out.rendered) =>
        \A i \in 1..Len(analysis_df) :
            (analysis_df[i].is_captain /\ analysis_df[i].position_number <= StartingSlots)
            => /\ summary_out.totals_shown
               /\ summary_out.captain_points
                    = RatTimes(analysis_df[i].gw_points, analysis_df[i].multiplier - 1)

\* C14's case: the bonus of a starting captain with points and multiplier 0
C14_Witness ==
    /\ impl = "app"
    /\ summary_out.rendered
    /\ \E i \in 1..Len(analysis_df) :
            /\ analysis_df[i].is_captain
            /\ analysis_df[i].position_number <= StartingSlots
            /\ analysis_df[i].multiplier = 0
            /\ RatLess(Zero, analysis_df[i].gw_points)
            /\ summary_out.captain_points = RatSub(Zero, analysis_df[i].gw_points)

\* the slots a list of cards shows
SlotsOf(shown) == {shown[k].position_number : k \in 1..Len(shown)}

\* C15: the bench total is the sum of the base points of exactly the picks
\* with slot > 11, no multiplier applied, and every pick is listed in exactly
\* one of the starting lineup (slot <= 11) or the bench, whatever its
\* multiplier.
C15_BenchTotalAndPartition ==
    summary_out.rendered =>
        LET slots == {analysis_df[i].position_number : i \in 1..Len(analysis_df)}
            late == SelectSeq(analysis_df, LAMBDA r : r.position_number > StartingSlots)
        IN  /\ SlotsOf(cards) = {p \in slots : p <= StartingSlots}
            /\ SlotsOf(summary_out.bench) = {p \in slots : p > StartingSlots}
            /\ Len(cards) + Len(summary_out.bench) = Len(analysis_df)
            /\ \A k \in 1..Len(summary_out.bench) :
                    summary_out.bench[k].points = late[k].gw_points
            /\ impl = "app" =>
                    /\ summary_out.bench_total_shown = (Len(late) > 0)
                    /\ summary_out.bench_points = RatSum(Column(late, "gw_points"))

\* C15's case: a bench total over a benched pick with points and a multiplier
\* above 1, beside a starter of multiplier 0
C15_Witness ==
    /\ impl = "app"
    /\ summary_out.bench_total_shown
    /\ RatLess(Zero, summary_out.bench_points)
    /\ \E i, j \in 1..Len(analysis_df) :
            /\ analysis_df[i].position_number > StartingSlots
            /\ analysis_df[i].multiplier > 1
            /\ RatLess(Zero, analysis_df[i].gw_points)
            /\ analysis_df[j].position_number <= StartingSlots
            /\ analysis_df[j].multiplier = 0

\* the rows in starting slots
InStartingSlots(frame) == SelectSeq(frame, LAMBDA r : r.position_number <= StartingSlots)

\* 0.7 times the mean of the starters' base points
SeventyPercentOfMean(starters) ==
    LET total == RatSum(Column(starters, "gw_points"))
    IN  Frac(7 * total.n, 10 * total.d * Len(starters))

\* C16: the view flags a pick as an underperformer if and only if it is a
\* starter (slot <= 11) whose base points are strictly below 0.7 times the
\* mean of the starters' base points; a starter exactly at the threshold and
\* a bench pick are never flagged.
C16_UnderperformerIffStarterBelowThreshold ==
    (impl = "views" /\ insights_out.rendered) =>
        LET starters == InStartingSlots(analysis_df)
            flagged == {insights_out.underperformers[k].position_number :
                            k \in 1..Len(insights_out.underperformers)}
        IN  \A i \in 1..Len(analysis_df) :
                analysis_df[i].position_number \in flagged
                <=> /\ analysis_df[i].position_number <= StartingSlots
                    /\ RatLess(analysis_df[i].gw_points, SeventyPercentOfMean(starters))

\* C16's case: a starter with points exactly at the threshold and a benched
\* pick below it, neither flagged
C16_Witness ==
    /\ impl = "views"
    /\ insights_out.rendered
    /\ insights_out.underperformers = <<>>
    /\ \E i, j \in 1..Len(analysis_df) :
            LET threshold == SeventyPercentOfMean(InStartingSlots(analysis_df))
            IN  /\ analysis_df[i].position_number <= StartingSlots
                /\ RatLess(Zero, analysis_df[i].gw_points)
                /\ analysis_df[i].gw_points = threshold
                /\ analysis_df[j].position_number > StartingSlots
                /\ RatLess(analysis_df[j].gw_points, threshold)

\* the rows in bench slots
InBenchSlots(frame) == SelectSeq(frame, LAMBDA r : r.position_number > StartingSlots)

\* C17: the view raises the suboptimal-lineup warning if and only if the
\* greatest base points among the bench picks are strictly greater than the
\* least base points among the starters, and the differential it reports is
\* that maximum minus that minimum; equal values raise no warning.
C17_LineupWarningIffBenchBeatsStarter ==
    (impl = "views" /\ insights_out.rendered) =>
        LET starters == Column(InStartingSlots(analysis_df), "gw_points")
            benched == Column(InBenchSlots(analysis_df), "gw_points")
            beaten == /\ Len(starters) > 0
                      /\ Len(benched) > 0
                      /\ RatLess(RatMin(starters), RatMax(benched))
        IN  /\ (insights_out.lineup.status = "suboptimal") <=> beaten
            /\ beaten => insights_out.lineup.points_diff
                            = RatSub(RatMax(benched), RatMin(starters))

\* C17's case: the best benched pick and the worst starter have the same
\* points, and the lineup is reported optimal
C17_Witness ==
    /\ impl = "views"
    /\ insights_out.rendered
    /\ insights_out.lineup.status = "optimal"
    /\ LET starters == Column(InStartingSlots(analysis_df), "gw_points")
           benched == Column(InBenchSlots(analysis_df), "gw_points")
       IN  /\ Len(starters) > 0
           /\ Len(benched) > 0
           /\ RatLess(Zero, RatMax(benched))
           /\ RatMax(benched) = RatMin(starters)

\* C17's other case: a benched pick outscored a starter and the warning
\* reports the difference
C17_WarningWitness ==
    /\ impl = "views"
    /\ insights_out.lineup.status = "suboptimal"
    /\ RatLess(Zero, insights_out.lineup.points_diff)

RECURSIVE EffectiveSum(_)
\* the sum of base points times multiplier over the rows
EffectiveSum(rows) ==
    IF rows = <<>> THEN Zero
    ELSE RatAdd(Effective(Head(rows)), EffectiveSum(Tail(rows)))

\* C18: the per-position aggregate of each position class is the sum of the
\* effective points (base times multiplier) of the picks of that class, and
\* the best position reported is a class whose sum is the largest.
C18_PositionAggregateIsEffectiveSum ==
    insights_out.rendered =>
        /\ DOMAIN insights_out.points_by_pos
             = {analysis_df[i].position : i \in 1..Len(analysis_df)}
        /\ \A p \in DOMAIN insights_out.points_by_pos :
                insights_out.points_by_pos[p]
                    = EffectiveSum(SelectSeq(analysis_df, LAMBDA r : r.position = p))
        /\ impl = "app" =>
                /\ insights_out.best_position \in DOMAIN insights_out.points_by_pos
                /\ \A p \in DOMAIN insights_out.points_by_pos :
                        ~RatLess(insights_out.points_by_pos[insights_out.best_position],
                                 insights_out.points_by_pos[p])

\* C19: in the view, every pick's value efficiency is its base points
\* divided by (cost / 10 + 0.001), and the list shown holds the 3 picks of
\* greatest efficiency (all of them when the squad has fewer) in descending
\* order: no pick outside the list has a strictly greater efficiency than a
\* pick inside it.
C19_TopThreeByValueEfficiency ==
    (impl = "views" /\ insights_out.rendered) =>
        LET top == insights_out.efficient_players
            listed == {top[k].position_number : k \in 1..Len(top)}
        IN  /\ \A i \in 1..Len(analysis_df) :
                    LET v == analysis_df[i].value
                    IN  /\ analysis_df[i].value_efficiency.num = analysis_df[i].gw_points
                        /\ analysis_df[i].value_efficiency.den
                             = Frac(100 * v.n + v.d, 1000 * v.d)
            /\ Len(top) = (IF Len(analysis_df) < 3 THEN Len(analysis_df) ELSE 3)
            /\ Cardinality(listed) = Len(top)
            /\ \A k \in 1..Len(top) :
                    \E i \in 1..Len(analysis_df) : analysis_df[i] = top[k]
            /\ \A k, l \in 1..Len(top) :
                    k < l => ~QuotLess(top[k].value_efficiency, top[l].value_efficiency)
            /\ \A i \in 1..Len(analysis_df) :
                    analysis_df[i].position_number \notin listed =>
                        \A k \in 1..Len(top) :
                            ~QuotLess(top[k].value_efficiency,
                                      analysis_df[i].value_efficiency)

\* C19's case: a squad of four picks, the list led by a pick of a later slot
\* than the second, and the pick left out strictly less efficient than the
\* leader
C19_Witness ==
    /\ impl = "views"
    /\ insights_out.rendered
    /\ Len(analysis_df) = 4
    /\ Len(insights_out.efficient_players) = 3
    /\ LET top == insights_out.efficient_players
       IN  /\ top[1].position_number > top[2].position_number
           /\ QuotLess(top[2].value_efficiency, top[1].value_efficiency)
           /\ RatLess(Zero, top[2].gw_points)
           /\ RatLess(Zero, top[2].value)
           /\ \E i \in 1..Len(analysis_df) :
                /\ \A k \in 1..3 : top[k].position_number # analysis_df[i].position_number
                /\ QuotLess(analysis_df[i].value_efficiency, top[1].value_efficiency)

\* C20: for every reconciled pick, whatever the dataset gave for it (exact
\* row, fallback or no history), the cost is not negative, so the efficiency
\* denominator cost / 10 + 0.001 is not zero, and every value efficiency the
\* view computes is finite.
C20_EfficiencyDenominatorNonZero ==
    /\ \A i \in 1..Len(team_analysis) :
            LET v == team_analysis[i].value
            IN  /\ v.d > 0
                /\ v.n >= 0
                /\ 100 * v.n + v.d > 0
    /\ (impl = "views" /\ insights_out.rendered) =>
            \A i \in 1..Len(analysis_df) :
                /\ analysis_df[i].value_efficiency.den.n > 0
                /\ analysis_df[i].value_efficiency.den.d > 0

\* C20's case: efficiencies computed for a pick with a cost, a pick with
\* points and cost 0, and a pick without history
C20_Witness ==
    /\ impl = "views"
    /\ insights_out.rendered
    /\ \E i, j, k \in 1..Len(analysis_df) :
            /\ RatLess(Zero, analysis_df[i].value)
            /\ analysis_df[j].value = Zero
            /\ RatLess(Zero, analysis_df[j].gw_points)
            /\ analysis_df[k].value = Zero
            /\ analysis_df[k].player_name = "Player_" \o ToString(analysis_df[k].element_id)
            /\ analysis_df[k].value_efficiency.den = Frac(1, 1000)

----------------------------------------------------------------------------
(* C21 .. C30 *)

\* the row reconciliation gives pick number i of the snapshot, as a function
\* of the picks, the player directory, the dataset and the gameweek
RowFor(i) ==
    LET pick == manager_data.picks[i]
        name == IF impl = "views" THEN PlayerNameViews(pick.element)
                ELSE PlayerNameApp(pick.element)
    IN  IF impl = "views"
        THEN AnalysisRow(pick, name, TeamNameOf(pick.element),
                         PlayerStatsViews(name, gw))
        ELSE AnalysisRow(pick, name, NoTeam, PlayerStatsApp(name, gw))

\* the reconciled rows in display order, without the column the Insights
\* tab adds
RowsShown ==
    [i \in 1..Len(analysis_df) |->
        [c \in DOMAIN analysis_df[i] \ {"value_efficiency"} |-> analysis_df[i][c]]]

\* C21: a finished analysis is a function of its picks, its player
\* directory, the dataset and the gameweek alone, whatever analyses came
\* before it: the reconciled rows are the rows of the picks in pick order,
\* the frame is these rows by slot, and the captain, underperformer,
\* position and efficiency diagnostics are those of that frame
C21_AnalysisDependsOnInputsOnly ==
    (pc = "done" /\ Reconciled) =>
        /\ Len(team_analysis) = Len(manager_data.picks)
        /\ \A i \in 1..Len(team_analysis) : team_analysis[i] = RowFor(i)
        /\ RowsShown = SortByPosition(team_analysis)
        /\ LET frame == SortByPosition(team_analysis)
               captain_data == CaptainData(frame)
           IN  /\ captain_out.status =
                     IF Len(captain_data) > 0 THEN "captain"
                     ELSE "No captain selected for this gameweek"
               /\ Len(captain_data) > 0 =>
                     /\ captain_out.player_name = captain_data[1].player_name
                     /\ captain_out.total = CaptainTotal(captain_data[1])
                     /\ impl = "app" =>
                           captain_out.verdict =
                               CaptainVerdict(frame, captain_data[1]).verdict
               /\ insights_out.points_by_pos = PointsByPos(frame)
               /\ summary_out.bench = BenchCards(frame)
               /\ impl = "views" =>
                     /\ insights_out.underperformers =
                            Underperformers(WithValueEfficiency(frame))
                     /\ insights_out.efficient_players =
                            NLargestEfficiency(WithValueEfficiency(frame),
                                               TopEfficient)
               /\ impl = "app" =>
                     insights_out.underperformers = UnderperformersApp(frame)

\* an analysis of a later gameweek has finished with several rows, some
\* of them with points
C21_Witness ==
    /\ pc = "done"
    /\ Reconciled
    /\ gw # MinGW
    /\ Len(team_analysis) > 1
    /\ \E i \in 1..Len(team_analysis) : team_analysis[i].gw_points # Zero

\* C22: once the dataset is loaded no step of any analysis changes it, nor
\* the file and the picks the suppliers hold; and from the reconciliation
\* to the end of the tabs the snapshot and the player directory of the
\* analysis stay as they were fetched
C22_AnalysisLeavesInputsUnchanged ==
    [][(pc # "start") =>
          /\ df' = df
          /\ file' = file
          /\ api_picks' = api_picks
          /\ (pc \in {"mapped", "summary", "captain", "insights"}) =>
                /\ manager_data' = manager_data
                /\ player_map' = player_map
                /\ teams' = teams]_vars

\* the Insights tab has written its column to the frame of a finished
\* analysis of a loaded dataset
C22_Witness ==
    /\ pc = "done"
    /\ impl = "views"
    /\ insights_out.rendered
    /\ Len(analysis_df) > 0
    /\ "value_efficiency" \in DOMAIN analysis_df[1]
    /\ Len(df.rows) > 0
    /\ "value_efficiency" \notin df.columns

\* the places in the dataset of the rows of a player at a gameweek
RowsOf(name, g) ==
    {k \in 1..Len(df.rows) : df.rows[k].player_name = name /\ df.rows[k].gw = g}

Rendered ==
    \/ cards # <<>>
    \/ summary_out.rendered
    \/ captain_out # NoCaptainOut
    \/ insights_out.rendered

\* C25: the player directory is only obtained once the team snapshot is,
\* a reconciled row only exists once both are, and nothing of the analysis
\* is rendered before every pick of the snapshot is reconciled
C25_SnapshotThenDirectoryThenRowsThenRendering ==
    /\ (pc \in {"mapped", "summary", "captain", "insights"} \/ DOMAIN player_map # {})
            => ~manager_data.is_none
    /\ (team_analysis # <<>> \/ analysis_df # <<>>) =>
            /\ ~manager_data.is_none
            /\ DOMAIN player_map # {}
    /\ Rendered =>
            /\ ~manager_data.is_none
            /\ DOMAIN player_map # {}
            /\ Len(team_analysis) = Len(manager_data.picks)
            /\ Len(analysis_df) = Len(team_analysis)
            /\ Len(team_analysis) > 0

\* an analysis went through the four steps to its last tab
C25_Witness ==
    /\ pc = "done"
    /\ ~manager_data.is_none
    /\ DOMAIN player_map # {}
    /\ Len(team_analysis) > 1
    /\ summary_out.rendered
    /\ insights_out.rendered

\* C28: whenever the captain check of app.py reports a suboptimal choice,
\* the missed-points differential it reports is strictly positive
C28_SuboptimalDifferentialIsPositive ==
    (impl = "app" /\ captain_out.verdict = "suboptimal") =>
        RatLess(Zero, captain_out.points_diff)

\* C30: on every path of the loader the dataset handed to the views has
\* every required column
C30_LoadedDatasetHasRequiredColumns ==
    (pc # "start") => RequiredCols \subseteq df.columns

\* the places, up to place k, of the rows of the player of row k
OwnRowsUpTo(k) ==
    {j \in 1..k : df.rows[j].player_name = df.rows[k].player_name}

\* the last RollingWindow of these places
TrailingRows(k) ==
    {j \in OwnRowsUpTo(k) :
        Cardinality({i \in OwnRowsUpTo(k) : i > j}) < RollingWindow}

RECURSIVE PointsOver(_)
\* the total points of the rows at the places of S
PointsOver(S) ==
    IF S = {} THEN 0
    ELSE LET j == CHOOSE x \in S : TRUE
         IN  df.rows[j].total_points + PointsOver(S \ {j})

Flagged(flag) ==
    {i \in 1..Len(bootstrap.events) : bootstrap.events[i][flag]}

\* the first of these places
FirstPlace(flag) == CHOOSE i \in Flagged(flag) : \A j \in Flagged(flag) : i <= j

\* the event at place i carries an id, and not the id 0
HasUsableId(i) == bootstrap.events[i].has_id /\ bootstrap.events[i].id # 0

\* the id of the event at place i, 1 for an event without id
IdOrOne(i) == IF bootstrap.events[i].has_id THEN bootstrap.events[i].id ELSE 1

\* the greatest of these ids, for a list that is not empty
GreatestId ==
    CHOOSE m \in {IdOrOne(i) : i \in 1..Len(bootstrap.events)} :
        \A i \in 1..Len(bootstrap.events) : IdOrOne(i) <= m

\* C24: no team fetch is started, and so no reconciliation, with a gameweek
\* below 1
C24_NoFetchBelowFirstGameweek ==
    (pc = "fetch" \/ outcome # "none") => gw >= MinGW

\* C27: the detected gameweek is the id of the first event flagged
\* is_current; when that gives no id (no such event, or an id that is
\* missing or 0) the id of the first event flagged is_next; when that gives
\* none either the greatest event id; and 1 when that is 0, when there is
\* no event and when the bootstrap fetch failed.  It is never None nor 0.
C27_DetectedGameweekByPriority ==
    (impl \in {"views", "pitch"} /\ pc \notin {"start", "idle"}) =>
        /\ current_gw.some
        /\ current_gw.val # 0
        /\ current_gw.val =
              IF bootstrap.is_none THEN 1
              ELSE IF Flagged("is_current") # {}
                      /\ HasUsableId(FirstPlace("is_current"))
                   THEN bootstrap.events[FirstPlace("is_current")].id
              ELSE IF Flagged("is_next") # {} /\ HasUsableId(FirstPlace("is_next"))
                   THEN bootstrap.events[FirstPlace("is_next")].id
              ELSE IF bootstrap.events # <<>> /\ GreatestId # 0
                   THEN GreatestId
              ELSE 1

\* an analysis was requested after the detection read a list where two
\* events of different ids are flagged is_current and one is flagged
\* is_next
C27_Witness ==
    /\ impl = "views"
    /\ pc = "fetch"
    /\ ~bootstrap.is_none
    /\ \E i, j \in Flagged("is_current") :
          /\ i < j
          /\ HasUsableId(i) /\ HasUsableId(j)
          /\ bootstrap.events[i].id # bootstrap.events[j].id
    /\ Flagged("is_next") # {}

\* C26: once fetch_manager_data has returned, with a team or with None,
\* the pitch view ends without an unhandled error, whatever rows the
\* dataset has for the picks
C26_PitchViewNeverRaises ==
    (impl = "pitch" /\ outcome # "none" /\ HasResponse(outcome)) =>
        raised = "none"

====
